---------------------------- MODULE Spec2Model ----------------------------
(***************************************************************************)
(* A model of quantum-svm: the AdaBoost ensemble (src/adaboost.py) and the *)
(* kernel helpers and entanglement patterns (src/quantum_kernels.py).      *)
(*                                                                         *)
(* Four specifications share the module's variables:                       *)
(*   Spec           AdaBoost.__init__ / fit / predict                      *)
(*   SpecVectorize  VectorizeKernel.__call__                               *)
(*   SpecKernel     Kernel.__call__                                        *)
(*   SpecPattern    get_entanglement_pattern                               *)
(* Each one pins the variables of the other components to their initial    *)
(* values.                                                                 *)
(*                                                                         *)
(* Numbers.  The code computes in floating point with log and exp.  The    *)
(* model computes in exact rational arithmetic (pairs <<n, d>>, d > 0, in   *)
(* lowest terms).  A classifier weight alpha = 0.5 * ln(r) is held as the   *)
(* rational r = (1 - error) / (error + eps); alpha > 0 iff r > 1, -alpha is *)
(* 1/r and alpha1 + alpha2 is r1 * r2.  Rounding error of the floats is not *)
(* modelled.                                                               *)
(***************************************************************************)
EXTENDS Integers, Sequences, FiniteSets, TLC

(***************************************************************************)
(* Bounds of the model.                                                    *)
(***************************************************************************)
MaxClassifiers == 2    \* longest weak_classifiers list
MaxEstimators == 2     \* largest n_estimators
MaxRecords == 2        \* fit is called while the ensemble would stay this short
MaxWorkers == 2        \* num_workers is 1 or MaxWorkers
MaxRows == 2           \* most rows of a sample matrix given to a kernel
MaxFeature == 2        \* a sample given to a kernel is one feature in 0..MaxFeature
MaxQubits == 4         \* largest num_qubits
MaxRep == 5            \* largest rep
EpsDen == 10           \* eps is modelled as 1/EpsDen (the code's eps is 1e-10,
                       \* beyond the integers TLC computes with)

(***************************************************************************)
(* Exact rationals.                                                        *)
(***************************************************************************)
RECURSIVE GCD(_, _)
GCD(a, b) == IF b = 0 THEN a ELSE GCD(b, a % b)

Abs(n) == IF n < 0 THEN -n ELSE n

Rat(n, d) == LET g == GCD(Abs(n), d) IN <<n \div g, d \div g>>

Zero == <<0, 1>>
One == <<1, 1>>

RAdd(a, b) ==
    LET g == GCD(a[2], b[2])
    IN  Rat(a[1] * (b[2] \div g) + b[1] * (a[2] \div g), (a[2] \div g) * b[2])

RSub(a, b) == RAdd(a, <<-b[1], b[2]>>)

RMul(a, b) ==
    LET x == Rat(a[1], b[2])
        z == Rat(b[1], a[2])
    IN  <<x[1] * z[1], x[2] * z[2]>>

RInv(a) == <<a[2], a[1]>>          \* a > 0

RDiv(a, b) == RMul(a, RInv(b))     \* b > 0

RLess(a, b) == a[1] * b[2] < b[1] * a[2]

RGeq(a, b) == ~RLess(a, b)

RECURSIVE RSum(_)
RSum(s) == IF s = <<>> THEN Zero ELSE RAdd(Head(s), RSum(Tail(s)))

(***************************************************************************)
(* Samples, labels and weak classifiers.  The sample matrix X given to fit *)
(* and predict holds two samples, named 1 and 2; a weak classifier is a    *)
(* pure function of the sample, held as its label for every sample.        *)
(***************************************************************************)
Labels == {-1, 1}
X == <<1, 2>>
LabelVectors == [1..Len(X) -> Labels]
Classifiers == LabelVectors

\* clf(X)
Apply(clf, XX) == [i \in 1..Len(XX) |-> clf[XX[i]]]

SeqsUpTo(S, n) == UNION {[1..k -> S] : k \in 0..n}


Eps == Rat(1, EpsDen)

(***************************************************************************)
(* State.                                                                  *)
(***************************************************************************)
VARIABLES
    \* AdaBoost: the object's fields (adaboost.py 33-37)
    weak_classifiers, n_estimators, num_workers, alphas, selected_classifiers,
    \* AdaBoost: the call in progress, fit's locals, and what the last call did
    pc, y, w, rnd, errors, best_clf_idx, result,
    \* AdaBoost.predict: the executor's work queue, running tasks, futures,
    \* the order the futures completed in, and the value returned
    queue, running, futures, completed, preds,
    \* VectorizeKernel: the field (quantum_kernels.py 23), the call in
    \* progress, the Y it was given, its locals, and the value returned
    vk_kernel, vk_pc, vk_Yarg, vk_X, vk_Y, vk_i, vk_j, computed_kernel,
    vk_ret,
    \* Kernel: the field (quantum_kernels.py 81), the arguments of the last
    \* call, and the value returned
    preprocess_func, k_x, k_y, k_ret,
    \* get_entanglement_pattern: the arguments, the iterable returned (what
    \* it has still to yield) and what the caller has drawn from it
    p_pc, num_qubits, entanglement, rep, pattern, p_out

adaVars == <<weak_classifiers, n_estimators, num_workers, alphas,
             selected_classifiers, pc, y, w, rnd, errors, best_clf_idx,
             result, queue, running, futures, completed, preds>>

\* What the last call did: the exception it raised, if any, and the line at
\* which it left (fit: 64 raise, 70 break, 58 loop exhausted; predict: 106)
NoResult == [op |-> "none", exc |-> "none", line |-> 0]
NoPreds == [ndim |-> -1, data |-> <<>>]

\* AdaBoost.__init__
InitAda ==
    /\ weak_classifiers \in SeqsUpTo(Classifiers, MaxClassifiers)
    /\ n_estimators \in 0..MaxEstimators
    /\ num_workers \in {1, MaxWorkers}
    /\ alphas = <<>>
    /\ selected_classifiers = <<>>
    /\ pc = "idle"
    /\ y = <<>>
    /\ w = <<>>
    /\ rnd = 0
    /\ errors = <<>>
    /\ best_clf_idx = 0
    /\ result = NoResult
    /\ queue = <<>>
    /\ running = {}
    /\ futures = <<>>
    /\ completed = <<>>
    /\ preds = NoPreds

(***************************************************************************)
(* AdaBoost.fit                                                            *)
(***************************************************************************)
\* w = np.ones(n_samples) / n_samples
UniformWeights(n) == [i \in 1..n |-> Rat(1, n)]

\* np.sum(w[y != preds])
WeightedError(ww, yy, p) ==
    RSum([i \in 1..Len(ww) |-> IF yy[i] # p[i] THEN ww[i] ELSE Zero])

\* errors = np.asarray([np.sum(w[y != preds]) for preds in weak_clf_preds])
Errors(ww, yy) ==
    [k \in 1..Len(weak_classifiers) |->
        WeightedError(ww, yy, Apply(weak_classifiers[k], X))]

\* A plausible slip: the last of the minimal entries instead of the first.
ArgMinLast(e) ==
    CHOOSE k \in 1..Len(e) :
        /\ \A j \in 1..Len(e) : RGeq(e[j], e[k])
        /\ \A j \in (k + 1)..Len(e) : RLess(e[k], e[j])

\* np.argmin(errors): the first of the minimal entries (1-based here)
ArgMin(e) ==
    CHOOSE k \in 1..Len(e) :
        /\ \A j \in 1..Len(e) : RGeq(e[j], e[k])
        /\ \A j \in 1..(k - 1) : RLess(e[k], e[j])

\* alpha = 0.5 * np.log((1 - error) / (error + 1e-10)), held as the
\* argument of the logarithm
Alpha(error) == RDiv(RSub(One, error), RAdd(error, Eps))

\* np.exp(-alpha * s) for s = y * prediction in {-1, 1}, times the common
\* factor exp(alpha) that the normalisation cancels: 1 for s = 1 and
\* exp(2 alpha) for s = -1
ExpFactor(alpha, s) == IF s = 1 THEN One ELSE alpha

\* w *= np.exp(-alpha * y * predictions)
Reweight(ww, alpha, yy, p) ==
    [i \in 1..Len(ww) |-> RMul(ww[i], ExpFactor(alpha, yy[i] * p[i]))]

\* A plausible slip: the weights are left as the update made them.
NormalizeSkipped(ww) == ww

\* w /= w.sum()
Normalize(ww) == [i \in 1..Len(ww) |-> RDiv(ww[i], RSum(ww))]

\* fit(X, y), lines 55-56
FitCall(yy) ==
    /\ pc = "idle"
    /\ Len(alphas) + n_estimators <= MaxRecords
    /\ pc' = "fit"
    /\ y' = yy
    /\ w' = UniformWeights(Len(X))
    /\ rnd' = 0
    /\ errors' = <<>>
    /\ best_clf_idx' = 0
    /\ result' = NoResult
    /\ preds' = NoPreds
    /\ completed' = <<>>
    /\ UNCHANGED <<weak_classifiers, n_estimators, num_workers, alphas,
                   selected_classifiers, queue, running, futures>>

\* fit's locals go out of scope when the call ends
FitLeave ==
    /\ pc' = "idle"
    /\ y' = <<>>
    /\ w' = <<>>
    /\ rnd' = 0
    /\ errors' = <<>>
    /\ best_clf_idx' = 0

\* A round with no candidates: np.argmin of an empty array raises (line 64)
FitRaise ==
    /\ pc = "fit"
    /\ rnd < n_estimators
    /\ weak_classifiers = <<>>
    /\ FitLeave
    /\ result' = [op |-> "fit", exc |-> "ValueError", line |-> 64]
    /\ UNCHANGED <<weak_classifiers, n_estimators, num_workers, alphas,
                   selected_classifiers, queue, running, futures,
                   completed, preds>>

\* A round whose minimal error is >= 1.0: break (line 70), then return self
FitBreak ==
    /\ pc = "fit"
    /\ rnd < n_estimators
    /\ weak_classifiers # <<>>
    /\ LET e == Errors(w, y)
       IN  RGeq(e[ArgMin(e)], One)
    /\ FitLeave
    /\ result' = [op |-> "fit", exc |-> "none", line |-> 70]
    /\ UNCHANGED <<weak_classifiers, n_estimators, num_workers, alphas,
                   selected_classifiers, queue, running, futures,
                   completed, preds>>

\* A full round, lines 60-80
FitRound ==
    /\ pc = "fit"
    /\ rnd < n_estimators
    /\ weak_classifiers # <<>>
    /\ LET e == Errors(w, y)
           b == ArgMin(e)
           error == e[b]
           alpha == Alpha(error)
           predictions == Apply(weak_classifiers[b], X)
       IN  /\ RLess(error, One)
           /\ errors' = e
           /\ best_clf_idx' = b
           /\ w' = Normalize(Reweight(w, alpha, y, predictions))
           /\ alphas' = Append(alphas, alpha)
           /\ selected_classifiers' =
                  Append(selected_classifiers, weak_classifiers[b])
    /\ rnd' = rnd + 1
    /\ UNCHANGED <<weak_classifiers, n_estimators, num_workers, pc, y,
                   result, queue, running, futures, completed,
                   preds>>

\* The loop is exhausted (line 58): return self
FitReturn ==
    /\ pc = "fit"
    /\ rnd = n_estimators
    /\ FitLeave
    /\ result' = [op |-> "fit", exc |-> "none", line |-> 58]
    /\ UNCHANGED <<weak_classifiers, n_estimators, num_workers, alphas,
                   selected_classifiers, queue, running, futures,
                   completed, preds>>

(***************************************************************************)
(* AdaBoost.predict                                                        *)
(***************************************************************************)
\* p * alpha for a prediction p in {-1, 1}
Times(alpha, p) == IF p = 1 THEN alpha ELSE RInv(alpha)

\* np.dot(self.alphas, clf_preds)[i]: the sum over the records k of
\* alphas[k] * clf_preds[k][i]; the empty sum is 0 (= 0.5 * ln 1)
RECURSIVE DotAt(_, _, _)
DotAt(al, cp, i) ==
    IF al = <<>> THEN One
    ELSE RMul(Times(Head(al), Head(cp)[i]), DotAt(Tail(al), Tail(cp), i))

\* A plausible slip: >= in place of >
IsPositiveOrZero(v) == v[1] >= v[2]

\* v > 0 for v = 0.5 * ln(r)
IsPositive(v) == v[1] > v[2]

\* np.where(np.dot(self.alphas, clf_preds) > 0, 1, -1).  With no record the
\* dot product of two empty vectors is the scalar 0.0 and the result is the
\* 0-dimensional array -1.
Where(al, cp) ==
    IF al = <<>>
    THEN [ndim |-> 0, data |-> <<IF IsPositive(DotAt(al, cp, 1)) THEN 1 ELSE -1>>]
    ELSE [ndim |-> 1,
          data |-> [i \in 1..Len(X) |->
                       IF IsPositive(DotAt(al, cp, i)) THEN 1 ELSE -1]]

\* [clf(X) for clf in self.selected_classifiers]
SequentialPreds == [k \in 1..Len(selected_classifiers) |->
                        Apply(selected_classifiers[k], X)]

\* num_workers == 1: lines 100, 105-106
PredictSequential ==
    /\ pc = "idle"
    /\ num_workers = 1
    /\ preds' = Where(alphas, SequentialPreds)
    /\ result' = [op |-> "predict", exc |-> "none", line |-> 106]
    /\ completed' = <<>>
    /\ UNCHANGED <<weak_classifiers, n_estimators, num_workers, alphas,
                   selected_classifiers, pc, y, w, rnd, errors, best_clf_idx,
                   queue, running, futures>>

Pending == [done |-> FALSE, value |-> <<>>]

\* num_workers != 1: executor.map submits one task per record, in record
\* order (lines 102-103)
PredictSubmit ==
    /\ pc = "idle"
    /\ num_workers # 1
    /\ pc' = "predict"
    /\ queue' = [k \in 1..Len(selected_classifiers) |-> k]
    /\ running' = {}
    /\ futures' = [k \in 1..Len(selected_classifiers) |-> Pending]
    /\ completed' = <<>>
    /\ preds' = NoPreds
    /\ result' = NoResult
    /\ UNCHANGED <<weak_classifiers, n_estimators, num_workers, alphas,
                   selected_classifiers, y, w, rnd, errors, best_clf_idx>>

\* A free worker thread takes the next task from the work queue
WorkerTake ==
    /\ pc = "predict"
    /\ queue # <<>>
    /\ Cardinality(running) < num_workers
    /\ running' = running \cup {Head(queue)}
    /\ queue' = Tail(queue)
    /\ UNCHANGED <<weak_classifiers, n_estimators, num_workers, alphas,
                   selected_classifiers, pc, y, w, rnd, errors, best_clf_idx,
                   result, futures, completed, preds>>

\* A running task (lambda clf: clf(X)) finishes and sets its future
WorkerFinish(k) ==
    /\ pc = "predict"
    /\ k \in running
    /\ running' = running \ {k}
    /\ futures' = [futures EXCEPT
                      ![k] = [done |-> TRUE,
                              value |-> Apply(selected_classifiers[k], X)]]
    /\ completed' = Append(completed, k)
    /\ UNCHANGED <<weak_classifiers, n_estimators, num_workers, alphas,
                   selected_classifiers, pc, y, w, rnd, errors, best_clf_idx,
                   result, queue, preds>>

\* A plausible slip: the results in the order the futures completed
\* (as_completed in place of map)
ResultsAsCompleted(futs, order) ==
    [k \in 1..Len(futs) |-> futs[order[k]].value]

\* list(executor.map(...)): the results in submission order, whatever order
\* the futures completed in
MapResults(futs, order) == [k \in 1..Len(futs) |-> futs[k].value]

\* All futures are done: the results are collected, lines 103, 105-106
PredictCollect ==
    /\ pc = "predict"
    /\ \A k \in 1..Len(futures) : futures[k].done
    /\ preds' = Where(alphas, MapResults(futures, completed))
    /\ result' = [op |-> "predict", exc |-> "none", line |-> 106]
    /\ pc' = "idle"
    /\ queue' = <<>>
    /\ running' = {}
    /\ futures' = <<>>
    /\ UNCHANGED <<weak_classifiers, n_estimators, num_workers, alphas,
                   selected_classifiers, y, w, rnd, errors, best_clf_idx,
                   completed>>

(***************************************************************************)
(* VectorizeKernel                                                         *)
(***************************************************************************)
vectorizeVars == <<vk_kernel, vk_pc, vk_Yarg, vk_X, vk_Y, vk_i, vk_j,
                   computed_kernel, vk_ret>>
kernelVars == <<preprocess_func, k_x, k_y, k_ret>>

Features == 0..MaxFeature
Matrices == SeqsUpTo(Features, MaxRows)
None == <<-1>>                       \* Python's None; no matrix equals it
ScalarKernels == {"product", "difference"}
NoMatrix == [shape |-> <<0, 0>>, at |-> <<>>]

\* self.kernel(x, y): the injected scalar kernel
KernelValue(kernel, xx, yy) ==
    IF kernel = "product" THEN xx * yy ELSE xx - yy

\* np.empty((n, m)): no entry is set
Empty(n, m) == [shape |-> <<n, m>>, at |-> <<>>]

\* A plausible slip: the entry is written at [j, i]
SetItemTransposed(K, i, j, v) ==
    [K EXCEPT !.at = [q \in DOMAIN K.at \cup {<<j, i>>} |->
                         IF q = <<j, i>> THEN v ELSE K.at[q]]]

\* computed_kernel[i, j] = v
SetItem(K, i, j, v) ==
    [K EXCEPT !.at = [q \in DOMAIN K.at \cup {<<i, j>>} |->
                         IF q = <<i, j>> THEN v ELSE K.at[q]]]

InitVectorize ==
    /\ vk_kernel \in ScalarKernels
    /\ vk_pc = "idle"
    /\ vk_Yarg = None
    /\ vk_X = <<>>
    /\ vk_Y = <<>>
    /\ vk_i = 0
    /\ vk_j = 0
    /\ computed_kernel = NoMatrix
    /\ vk_ret = NoMatrix

\* __call__(X, Y), lines 43-48.  A call leaves nothing behind in the object,
\* so a behaviour holds one call.
VectorizeCall ==
    /\ vk_pc = "idle"
    /\ vk_pc' = "loop"
    /\ \E XX \in Matrices, YY \in Matrices \cup {None} :
           /\ vk_Yarg' = YY
           /\ vk_X' = XX
           /\ vk_Y' = IF YY = None THEN XX ELSE YY
           /\ computed_kernel' =
                  Empty(Len(XX), Len(IF YY = None THEN XX ELSE YY))
    /\ vk_i' = 1
    /\ vk_j' = 1
    /\ vk_ret' = NoMatrix
    /\ UNCHANGED vk_kernel

\* One pass of the inner loop, lines 49-51
VectorizeStep ==
    /\ vk_pc = "loop"
    /\ vk_i <= Len(vk_X)
    /\ vk_j <= Len(vk_Y)
    /\ computed_kernel' =
           SetItem(computed_kernel, vk_i, vk_j,
                   KernelValue(vk_kernel, vk_X[vk_i], vk_Y[vk_j]))
    /\ IF vk_j < Len(vk_Y)
       THEN vk_j' = vk_j + 1 /\ vk_i' = vk_i
       ELSE vk_j' = 1 /\ vk_i' = vk_i + 1
    /\ UNCHANGED <<vk_kernel, vk_pc, vk_Yarg, vk_X, vk_Y, vk_ret>>

\* The loops are exhausted: return computed_kernel, line 53
VectorizeReturn ==
    /\ vk_pc = "loop"
    /\ vk_i > Len(vk_X) \/ Len(vk_Y) = 0
    /\ vk_pc' = "returned"
    /\ vk_ret' = computed_kernel
    /\ vk_i' = 0
    /\ vk_j' = 0
    /\ computed_kernel' = NoMatrix
    /\ UNCHANGED <<vk_kernel, vk_Yarg, vk_X, vk_Y>>

(***************************************************************************)
(* Kernel                                                                  *)
(***************************************************************************)
PreprocessFuncs == {"none", "double", "increment"}

\* self.preprocess_func(x), applied to the whole array
Preprocess(f, a) ==
    [i \in 1..Len(a) |-> IF f = "double" THEN 2 * a[i] ELSE a[i] + 1]

\* self.kernel.evaluate(x_vec=x, y_vec=y): the engine is external; entry
\* [i][j] stands for the overlap of the states encoded from row i of x_vec
\* and row j of y_vec (of x_vec when y_vec is None)
Evaluate(x_vec, y_vec) ==
    LET yv == IF y_vec = None THEN x_vec ELSE y_vec
    IN  [i \in 1..Len(x_vec) |-> [j \in 1..Len(yv) |-> <<x_vec[i], yv[j]>>]]

InitKernel ==
    /\ preprocess_func \in PreprocessFuncs
    /\ k_x = None
    /\ k_y = None
    /\ k_ret = <<>>

\* __call__(x, y), lines 101-104.  A call leaves nothing behind in the
\* object, so a behaviour holds one call.
KernelCall ==
    /\ k_x = None
    /\ \E xx \in Matrices, yy \in Matrices \cup {None} :
           /\ k_x' = xx
           /\ k_y' = yy
           /\ k_ret' = IF preprocess_func # "none"
                       THEN Evaluate(Preprocess(preprocess_func, xx), yy)
                       ELSE Evaluate(xx, yy)
    /\ UNCHANGED preprocess_func

(***************************************************************************)
(* get_entanglement_pattern                                                *)
(***************************************************************************)
patternVars == <<p_pc, num_qubits, entanglement, rep, pattern, p_out>>

Topologies == {"full", "linear", "reverse_linear", "pairwise", "circular",
               "sca"}

\* range(start, stop, step) as a sequence
RECURSIVE Range(_, _, _)
Range(start, stop, step) ==
    IF (step > 0 /\ start >= stop) \/ (step < 0 /\ start <= stop)
    THEN <<>>
    ELSE <<start>> \o Range(start + step, stop, step)

\* ((i, i + 1) for i in r)
PairsUp(r) == [k \in 1..Len(r) |-> <<r[k], r[k] + 1>>]

\* ((i, i - 1) for i in r)
PairsDown(r) == [k \in 1..Len(r) |-> <<r[k], r[k] - 1>>]

\* ((j, i) for i, j in pattern)
Swapped(s) == [k \in 1..Len(s) |-> <<s[k][2], s[k][1]>>]

\* chain(a, b)
Chain(a, b) == a \o b

\* combinations(range(n), 2): the pairs (i, j), i < j, in lexicographic order
RECURSIVE CombinationsFrom(_, _)
CombinationsFrom(i, n) ==
    IF i >= n THEN <<>>
    ELSE LET r == Range(i + 1, n, 1)
         IN  [k \in 1..Len(r) |-> <<i, r[k]>>] \o CombinationsFrom(i + 1, n)

\* case 'full', line 140
Combinations(n) == CombinationsFrom(0, n)

\* case 'linear', line 143
Linear(n) == PairsUp(Range(0, n - 1, 1))

\* case 'reverse_linear', line 146
ReverseLinear(n) == PairsDown(Range(n - 1, 0, -1))

\* A plausible slip: the odd-start pairs chained first
PairwiseOddFirst(n) ==
    Chain(PairsUp(Range(1, n - 1, 2)), PairsUp(Range(0, n - 1, 2)))

\* case 'pairwise', lines 149-151
Pairwise(n) ==
    LET even_pattern == PairsUp(Range(0, n - 1, 2))
        odd_pattern == PairsUp(Range(1, n - 1, 2))
    IN  Chain(even_pattern, odd_pattern)

\* case 'circular', line 154
Circular(n) == Chain(<< <<n - 1, 0>> >>, Linear(n))

\* A plausible slip: the rotation taken the other way
ScaOtherWay(n, r) ==
    LET circ_pattern == Circular(n)
        idx == Range(0, n, 1)
        rotated == [k \in 1..Len(idx) |-> circ_pattern[((idx[k] + r) % n) + 1]]
    IN  IF r % 2 = 1 THEN Swapped(rotated) ELSE rotated

\* case 'sca', lines 157-160 (circ_pattern is indexed from 0 in the code)
Sca(n, r) ==
    LET circ_pattern == Circular(n)
        idx == Range(0, n, 1)
        rotated == [k \in 1..Len(idx) |-> circ_pattern[((idx[k] - r) % n) + 1]]
    IN  IF r % 2 = 1 THEN Swapped(rotated) ELSE rotated

\* The match statement, lines 138-160: what the returned iterable yields
GetEntanglementPattern(n, e, r) ==
    CASE e = "full" -> Combinations(n)
      [] e = "linear" -> Linear(n)
      [] e = "reverse_linear" -> ReverseLinear(n)
      [] e = "pairwise" -> Pairwise(n)
      [] e = "circular" -> Circular(n)
      [] e = "sca" -> Sca(n, r)

InitPattern ==
    /\ p_pc = "idle"
    /\ num_qubits = 0
    /\ entanglement = "none"
    /\ rep = 0
    /\ pattern = <<>>
    /\ p_out = <<>>

\* get_entanglement_pattern(num_qubits, entanglement, rep) returns an iterable
PatternCall ==
    /\ p_pc \in {"idle", "exhausted"}
    /\ p_pc' = "iterating"
    /\ \E n \in 1..MaxQubits, e \in Topologies, r \in 0..MaxRep :
           /\ num_qubits' = n
           /\ entanglement' = e
           /\ rep' = r
           /\ pattern' = GetEntanglementPattern(n, e, r)
    /\ p_out' = <<>>

\* The caller draws the next pair
PatternYield ==
    /\ p_pc = "iterating"
    /\ pattern # <<>>
    /\ p_out' = Append(p_out, Head(pattern))
    /\ pattern' = Tail(pattern)
    /\ UNCHANGED <<p_pc, num_qubits, entanglement, rep>>

\* Nothing is left to yield
PatternExhausted ==
    /\ p_pc = "iterating"
    /\ pattern = <<>>
    /\ p_pc' = "exhausted"
    /\ UNCHANGED <<num_qubits, entanglement, rep, pattern, p_out>>

(***************************************************************************)
(* The specifications.                                                     *)
(***************************************************************************)
vars == <<adaVars, vectorizeVars, kernelVars, patternVars>>

IdleAda ==
    /\ weak_classifiers = <<>>
    /\ n_estimators = 0
    /\ num_workers = 1
    /\ alphas = <<>>
    /\ selected_classifiers = <<>>
    /\ pc = "idle"
    /\ y = <<>>
    /\ w = <<>>
    /\ rnd = 0
    /\ errors = <<>>
    /\ best_clf_idx = 0
    /\ result = NoResult
    /\ queue = <<>>
    /\ running = {}
    /\ futures = <<>>
    /\ completed = <<>>
    /\ preds = NoPreds

IdleVectorize ==
    /\ vk_kernel = "product"
    /\ vk_pc = "idle"
    /\ vk_Yarg = None
    /\ vk_X = <<>>
    /\ vk_Y = <<>>
    /\ vk_i = 0
    /\ vk_j = 0
    /\ computed_kernel = NoMatrix
    /\ vk_ret = NoMatrix

IdleKernel ==
    /\ preprocess_func = "none"
    /\ k_x = None
    /\ k_y = None
    /\ k_ret = <<>>

\* AdaBoost
Init == InitAda /\ IdleVectorize /\ IdleKernel /\ InitPattern

Next ==
    \/ (\E yy \in LabelVectors : FitCall(yy))
          /\ UNCHANGED <<vectorizeVars, kernelVars, patternVars>>
    \/ FitRaise /\ UNCHANGED <<vectorizeVars, kernelVars, patternVars>>
    \/ FitBreak /\ UNCHANGED <<vectorizeVars, kernelVars, patternVars>>
    \/ FitRound /\ UNCHANGED <<vectorizeVars, kernelVars, patternVars>>
    \/ FitReturn /\ UNCHANGED <<vectorizeVars, kernelVars, patternVars>>
    \/ PredictSequential /\ UNCHANGED <<vectorizeVars, kernelVars, patternVars>>
    \/ PredictSubmit /\ UNCHANGED <<vectorizeVars, kernelVars, patternVars>>
    \/ WorkerTake /\ UNCHANGED <<vectorizeVars, kernelVars, patternVars>>
    \/ (\E k \in 1..Len(futures) : WorkerFinish(k))
          /\ UNCHANGED <<vectorizeVars, kernelVars, patternVars>>
    \/ PredictCollect /\ UNCHANGED <<vectorizeVars, kernelVars, patternVars>>

Spec == Init /\ [][Next]_vars

\* VectorizeKernel
InitV == IdleAda /\ InitVectorize /\ IdleKernel /\ InitPattern

NextV ==
    \/ VectorizeCall /\ UNCHANGED <<adaVars, kernelVars, patternVars>>
    \/ VectorizeStep /\ UNCHANGED <<adaVars, kernelVars, patternVars>>
    \/ VectorizeReturn /\ UNCHANGED <<adaVars, kernelVars, patternVars>>

SpecVectorize == InitV /\ [][NextV]_vars

\* Kernel
InitK == IdleAda /\ IdleVectorize /\ InitKernel /\ InitPattern

NextK ==
    KernelCall /\ UNCHANGED <<adaVars, vectorizeVars, patternVars>>

SpecKernel == InitK /\ [][NextK]_vars

\* get_entanglement_pattern
InitP == IdleAda /\ IdleVectorize /\ IdleKernel /\ InitPattern

NextP ==
    \/ PatternCall /\ UNCHANGED <<adaVars, vectorizeVars, kernelVars>>
    \/ PatternYield /\ UNCHANGED <<adaVars, vectorizeVars, kernelVars>>
    \/ PatternExhausted /\ UNCHANGED <<adaVars, vectorizeVars, kernelVars>>

SpecPattern == InitP /\ [][NextP]_vars

(***************************************************************************)
(* Claims about AdaBoost (under Spec).                                     *)
(***************************************************************************)
\* The weighted error of candidate k under the weights and labels of the
\* round: the weights of the samples it mislabels, added up
CandidateError(k) ==
    RSum([i \in 1..Len(X) |->
             IF weak_classifiers[k][X[i]] # y[i] THEN w[i] ELSE Zero])

\* k is the smallest index whose weighted error is minimal
FirstMinimal(k) ==
    /\ \A j \in 1..Len(weak_classifiers) :
           RGeq(CandidateError(j), CandidateError(k))
    /\ \A j \in 1..(k - 1) : RLess(CandidateError(k), CandidateError(j))

\* C1: every round of fit that appends a record appends weak_classifiers[k]
\* for the smallest index k whose weighted error, under the weights the round
\* starts with, is minimal among the candidates.
C1_SelectsFirstMinimal ==
    [][Len(selected_classifiers') = Len(selected_classifiers) + 1 =>
          \E k \in 1..Len(weak_classifiers) :
              /\ FirstMinimal(k)
              /\ best_clf_idx' = k
              /\ selected_classifiers'[Len(selected_classifiers')] =
                     weak_classifiers[k]
              /\ Len(alphas') = Len(selected_classifiers')]_vars

\* C1 witness: a round has appended the earlier of two different candidates
\* whose weighted errors tied for the minimum.
C1_TieResolved ==
    /\ pc = "fit"
    /\ rnd >= 1
    /\ selected_classifiers # <<>>
    /\ \E j \in (best_clf_idx + 1)..Len(errors) :
           /\ errors[j] = errors[best_clf_idx]
           /\ weak_classifiers[j] # weak_classifiers[best_clf_idx]
    /\ selected_classifiers[Len(selected_classifiers)] =
           weak_classifiers[best_clf_idx]

\* The alpha-weighted sum of the selected classifiers' predictions for
\* sample i, as the rational r with sum = 0.5 * ln(r)
RECURSIVE VoteUpTo(_, _)
VoteUpTo(k, i) ==
    IF k = 0 THEN One
    ELSE LET p == selected_classifiers[k][X[i]]
         IN  RMul(VoteUpTo(k - 1, i),
                  IF p = 1 THEN alphas[k] ELSE RInv(alphas[k]))

Vote(i) == VoteUpTo(Len(alphas), i)

PredictReturned == pc = "idle" /\ result.op = "predict" /\ result.exc = "none"

\* C2: for an ensemble with at least one record, predict returns for every
\* sample +1 if the alpha-weighted sum of the selected classifiers'
\* predictions is strictly positive, and -1 otherwise (a sum of zero too).
C2_SignOfWeightedSum ==
    (PredictReturned /\ Len(alphas) >= 1) =>
        /\ preds.ndim = 1
        /\ Len(preds.data) = Len(X)
        /\ \A i \in 1..Len(X) :
               /\ RLess(One, Vote(i)) => preds.data[i] = 1
               /\ ~RLess(One, Vote(i)) => preds.data[i] = -1

\* C2 witness: predict has returned -1 for a sample whose weighted sum is
\* exactly zero, and +1 for a sample whose sum is positive.
C2_ZeroSumIsNegative ==
    /\ PredictReturned
    /\ Len(alphas) >= 1
    /\ \E i \in 1..Len(X) : Vote(i) = One /\ preds.data[i] = -1
    /\ \E i \in 1..Len(X) : RLess(One, Vote(i)) /\ preds.data[i] = 1

\* C3: predict with num_workers > 1 returns what predict with
\* num_workers = 1 returns for the same ensemble and input, whatever order
\* the worker threads completed the evaluations in.
C3_ParallelEqualsSequential ==
    (PredictReturned /\ num_workers # 1) =>
        preds = Where(alphas, SequentialPreds)

\* C3 witness: a parallel predict has returned after a later record's
\* evaluation completed before an earlier one's, for records that differ in
\* classifier and in alpha.
C3_OutOfOrderCompletion ==
    /\ PredictReturned
    /\ num_workers # 1
    /\ \E a, b \in 1..Len(completed) :
           /\ a < b
           /\ completed[a] > completed[b]
           /\ alphas[completed[a]] # alphas[completed[b]]
           /\ selected_classifiers[completed[a]] #
                  selected_classifiers[completed[b]]

FitEnded == pc = "idle" /\ result.op = "fit"

\* C4: fit on an instance whose weak_classifiers is empty fails with an error
\* before the boosting loop (line 58) is entered, for every n_estimators, and
\* adds no record.
C4_EmptyCandidatesFailUpFront ==
    (FitEnded /\ weak_classifiers = <<>>) =>
        /\ result.exc # "none"
        /\ result.line < 58
        /\ alphas = <<>>
        /\ selected_classifiers = <<>>

\* C5: with n_estimators = 0 fit succeeds and leaves zero records, and a
\* predict on the ensemble with zero records fails with an error instead of
\* returning predictions.
C5_PredictOnEmptyEnsembleFails ==
    /\ (FitEnded /\ n_estimators = 0 /\ weak_classifiers # <<>>) =>
           (result.exc = "none" /\ alphas = <<>>)
    /\ (pc = "idle" /\ result.op = "predict" /\ n_estimators = 0
            /\ alphas = <<>>) =>
           result.exc # "none"

\* C6: whenever fit returns, after any sequence of fit calls, the ensemble
\* holds between 0 and n_estimators records; a run that stopped early (break
\* at line 70) returned with fewer than n_estimators records.
C6_AtMostNEstimatorsRecords ==
    (FitEnded /\ result.exc = "none") =>
        /\ Len(alphas) = Len(selected_classifiers)
        /\ Len(alphas) <= n_estimators
        /\ result.line = 70 => Len(alphas) < n_estimators

\* C12: during fit the sample weights start uniform at 1/N and, after every
\* completed round (update, then renormalisation), sum to 1 with every entry
\* non-negative.
C12_WeightsNormalized ==
    pc = "fit" =>
        /\ Len(w) = Len(X)
        /\ rnd = 0 => \A i \in 1..Len(w) : w[i] = Rat(1, Len(X))
        /\ RSum(w) = One
        /\ \A i \in 1..Len(w) : RGeq(w[i], Zero)

\* C12 witness: two rounds have completed and left the weights unequal.
C12_TwoRoundsReweighted ==
    /\ pc = "fit"
    /\ rnd = 2
    /\ w[1] # w[2]

(***************************************************************************)
(* Claims about VectorizeKernel (under SpecVectorize).                     *)
(***************************************************************************)
\* C7: VectorizeKernel(kernel)(X, Y) returns a matrix of Len(X) rows and
\* Len(Y) columns whose entry (i, j) is kernel(X[i], Y[j]); with Y omitted
\* the result is that of (X, X).
C7_KernelMatrix ==
    vk_pc = "returned" =>
        LET YY == IF vk_Yarg = None THEN vk_X ELSE vk_Yarg
        IN  /\ vk_ret.shape = <<Len(vk_X), Len(YY)>>
            /\ DOMAIN vk_ret.at = (1..Len(vk_X)) \X (1..Len(YY))
            /\ \A i \in 1..Len(vk_X), j \in 1..Len(YY) :
                   vk_ret.at[<<i, j>>] = KernelValue(vk_kernel, vk_X[i], YY[j])

\* C7 witness: a call with a Y of another length than X has returned, for a
\* kernel that is not symmetric and rows that differ.
C7_RectangularReturned ==
    /\ vk_pc = "returned"
    /\ vk_kernel = "difference"
    /\ vk_Yarg # None
    /\ Len(vk_X) >= 2
    /\ Len(vk_Yarg) >= 1
    /\ Len(vk_Yarg) # Len(vk_X)
    /\ vk_X[1] # vk_X[2]
    /\ vk_Yarg[1] # vk_X[1]

(***************************************************************************)
(* Claims about get_entanglement_pattern (under SpecPattern).              *)
(***************************************************************************)
LexLess(a, b) == a[1] < b[1] \/ (a[1] = b[1] /\ a[2] < b[2])

IsFull(s, Q) ==
    /\ 2 * Len(s) = Q * (Q - 1)
    /\ \A k \in 1..Len(s) : 0 <= s[k][1] /\ s[k][1] < s[k][2] /\ s[k][2] < Q
    /\ \A k \in 1..(Len(s) - 1) : LexLess(s[k], s[k + 1])

IsLinear(s, Q) ==
    /\ Len(s) = Q - 1
    /\ \A k \in 1..(Q - 1) : s[k] = <<k - 1, k>>

IsReverseLinear(s, Q) ==
    /\ Len(s) = Q - 1
    /\ \A k \in 1..(Q - 1) : s[k] = <<Q - k, Q - k - 1>>

\* Q \div 2 even-start pairs (0,1), (2,3), ... and then the odd-start pairs
\* (1,2), (3,4), ...
IsPairwise(s, Q) ==
    LET evens == Q \div 2
    IN  /\ Len(s) = Q - 1
        /\ \A k \in 1..evens : s[k] = <<2 * k - 2, 2 * k - 1>>
        /\ \A k \in (evens + 1)..(Q - 1) :
               s[k] = <<2 * (k - evens) - 1, 2 * (k - evens)>>

IsCircular(s, Q) ==
    /\ Len(s) = Q
    /\ s[1] = <<Q - 1, 0>>
    /\ \A k \in 2..Q : s[k] = <<k - 2, k - 1>>

\* C8: for every Q >= 1 the pairs drawn from get_entanglement_pattern(Q, t)
\* are the sequence of the topology table, for t one of full, linear,
\* reverse_linear, pairwise and circular.
C8_TopologyTable ==
    p_pc = "exhausted" =>
        /\ entanglement = "full" => IsFull(p_out, num_qubits)
        /\ entanglement = "linear" => IsLinear(p_out, num_qubits)
        /\ entanglement = "reverse_linear" =>
               IsReverseLinear(p_out, num_qubits)
        /\ entanglement = "pairwise" => IsPairwise(p_out, num_qubits)
        /\ entanglement = "circular" => IsCircular(p_out, num_qubits)

\* C8 witness: a pairwise pattern with even-start and odd-start pairs has
\* been drawn to its end.
C8_PairwiseDrawn ==
    /\ p_pc = "exhausted"
    /\ entanglement = "pairwise"
    /\ num_qubits >= 4
    /\ Len(p_out) = num_qubits - 1

\* Entry m (0-based) of the circular sequence for Q qubits
CircularAt(m, Q) == IF m = 0 THEN <<Q - 1, 0>> ELSE <<m - 1, m>>

\* C9: get_entanglement_pattern(Q, 'sca', rep) yields Q pairs; the pair at
\* index i (0-based) is circular[(i - rep) mod Q], with its two elements
\* swapped if and only if rep is odd.
C9_ScaRotation ==
    (p_pc = "exhausted" /\ entanglement = "sca") =>
        /\ Len(p_out) = num_qubits
        /\ \A i \in 0..(num_qubits - 1) :
               LET c == CircularAt((i - rep) % num_qubits, num_qubits)
               IN  p_out[i + 1] =
                       IF rep % 2 = 1 THEN <<c[2], c[1]>> ELSE c

\* C9 witness: an sca pattern has been drawn to its end for an odd rep that
\* is no multiple of the qubit count, on three qubits or more.
C9_OddRepDrawn ==
    /\ p_pc = "exhausted"
    /\ entanglement = "sca"
    /\ num_qubits >= 3
    /\ rep % 2 = 1
    /\ rep % num_qubits # 0
    /\ Len(p_out) = num_qubits

\* C11: for every Q >= 1, every topology and every rep >= 0, each pair drawn
\* from get_entanglement_pattern is a 2-tuple of two distinct indices, both
\* in [0, Q).
C11_DistinctIndicesInRange ==
    \A k \in 1..Len(p_out) :
        /\ Len(p_out[k]) = 2
        /\ p_out[k][1] \in 0..(num_qubits - 1)
        /\ p_out[k][2] \in 0..(num_qubits - 1)
        /\ p_out[k][1] # p_out[k][2]

(***************************************************************************)
(* Claims about Kernel (under SpecKernel).                                 *)
(***************************************************************************)
\* C10: when a Kernel built with a preprocessing function f is called with
\* both x and y, the overlaps are computed between f(x) and f(y).
C10_PreprocessesBoth ==
    (k_x # None /\ k_y # None /\ preprocess_func # "none") =>
        k_ret = Evaluate(Preprocess(preprocess_func, k_x),
                         Preprocess(preprocess_func, k_y))

=============================================================================
